---- MODULE Spec2Model ----
(***************************************************************************)
(* A model of spektral.data.dataset.Dataset (a container of Graph objects) *)
(* and of the shape / loss bookkeeping of                                 *)
(* spektral.layers.pooling.diff_pool.DiffPool.                            *)
(*                                                                         *)
(* Python lists are objects: `heap` maps a list reference to its content  *)
(* and `ds` maps each Dataset the program holds ("parent", and "sub", the  *)
(* last sub-Dataset bound by `sub = d[key]`) to the reference stored in   *)
(* its `graphs` attribute, so that aliasing between a Dataset and a        *)
(* sub-Dataset is something the model can express.                        *)
(* Sequences are 1-based in the model; keys, logged positions and every   *)
(* index that appears in a record are Python's 0-based values.            *)
(***************************************************************************)
EXTENDS Integers, Sequences, FiniteSets, TLC

VARIABLES heap, ds, err, ret, last, trace, layer, inputs, outputs, losses, ncalls

vars == <<heap, ds, err, ret, last, trace, layer, inputs, outputs, losses, ncalls>>
dsVars == <<heap, ds, err, ret, last, trace>>
poolVars == <<layer, inputs, outputs, losses, ncalls>>

(***************************************************************************)
(* Bounds                                                                  *)
(***************************************************************************)
MaxLen == 2          \* longest graph list a Dataset holds
NGraphs == 2         \* number of distinct Graph objects
MaxKeyLen == 2       \* longest list / tuple / ndarray key and assigned sequence
MaxTransforms == 2   \* longest list of transforms given to the constructor
MaxK == 2            \* largest number of clusters k of a DiffPool layer
MaxC == 2            \* largest channels argument of a DiffPool layer
MaxN == 2            \* largest number of nodes of an input graph
MaxF == 2            \* largest number of node features
MaxB == 2            \* largest batch size, and largest number of segments in I
MaxCalls == 2        \* calls of the layer that are followed

(***************************************************************************)
(* Values                                                                  *)
(***************************************************************************)
Graphs == 1..NGraphs
NonGraph == 0                       \* an object that is not a Graph instance
Transforms == {"t_next", "t_first"} \* callables that map a Graph to a Graph
Predicates == {"p_all", "p_none", "p_first"}
Reducers == {"r_len"}
NonCallable == "nc"
NoRef == 0                          \* the Dataset does not exist
ParentRef == 1
SubRef == 2
Refs == {ParentRef, SubRef}
Names == {"parent", "sub"}

None == << >>                       \* Python's None, for optional integers
Some(n) == <<n>>
IsNone(o) == Len(o) = 0
Val(o) == o[1]

callable(f) == f \in Transforms \cup Predicates \cup Reducers

\* transform(graph): the Graph the callable returns
Call(t, g) ==
  IF t = "t_next" THEN (g % NGraphs) + 1 ELSE 1

\* bool(function(graph))
Truth(f, g) ==
  IF f = "p_all" THEN TRUE
  ELSE IF f = "p_none" THEN FALSE
  ELSE g = 1

SeqsUpTo(S, n) == UNION {[1..m -> S] : m \in 0..n}

Min(a, b) == IF a < b THEN a ELSE b
Max(a, b) == IF a > b THEN a ELSE b

(***************************************************************************)
(* Events of the log `trace`: what the last operation called, in order     *)
(***************************************************************************)
Ev(e, f, i, g) == [ev |-> e, f |-> f, i |-> i, g |-> g]
EvDownload == Ev("download", "", 0, 0)
EvRead == Ev("read", "", 0, 0)
EvCall(f, i, g) == Ev("call", f, i, g)
EvApply(t) == Ev("apply", t, 0, 0)

(***************************************************************************)
(* Keys and assigned values                                                *)
(***************************************************************************)
Key(k, i, start, stop, step, idx) ==
  [kind |-> k, i |-> i, start |-> start, stop |-> stop, step |-> step, idx |-> idx]
NoKey == Key("none", 0, None, None, None, << >>)
IntKey(i) == Key("int", i, None, None, None, << >>)
NpIntKey(i) == Key("npint", i, None, None, None, << >>)
SliceKey(a, b, s) == Key("slice", 0, a, b, s, << >>)
SeqKey(k, idx) == Key(k, 0, None, None, None, idx)
OtherKey == Key("other", 0, None, None, None, << >>)

Value(k, g, items) == [kind |-> k, g |-> g, items |-> items]
NoValue == Value("none", 0, << >>)
GraphValue(g) == Value("graph", g, << >>)
SeqValue(k, items) == Value(k, 0, items)
OtherValue == Value("other", 0, << >>)

\* the value a call returns
Ret(k, g, graphs) == [kind |-> k, g |-> g, graphs |-> graphs]
RetNone == Ret("none", 0, << >>)

\* the outcome of a handler on a graph list
Out(graphs, e, r, calls) == [graphs |-> graphs, err |-> e, ret |-> r, calls |-> calls]

(***************************************************************************)
(* Python list indexing and slicing                                        *)
(***************************************************************************)
\* list[i] is defined for -len <= i < len
InRange(n, i) == -n <= i /\ i < n
\* the 1-based position list[i] reads
Pos(n, i) == (IF i < 0 THEN i + n ELSE i) + 1
AllInRange(n, idx) == \A j \in 1..Len(idx) : InRange(n, idx[j])

SliceStep(key) == IF IsNone(key.step) THEN 1 ELSE Val(key.step)

\* PySlice_AdjustIndices on one end of the slice
Clamp(n, v, step) ==
  IF v < 0
    THEN IF v + n < 0 THEN (IF step < 0 THEN -1 ELSE 0) ELSE v + n
    ELSE IF v >= n THEN (IF step < 0 THEN n - 1 ELSE n) ELSE v

SliceStart(n, key) ==
  IF IsNone(key.start)
    THEN IF SliceStep(key) < 0 THEN n - 1 ELSE 0
    ELSE Clamp(n, Val(key.start), SliceStep(key))

SliceStop(n, key) ==
  IF IsNone(key.stop)
    THEN IF SliceStep(key) < 0 THEN -1 ELSE n
    ELSE Clamp(n, Val(key.stop), SliceStep(key))

SliceLength(n, key) ==
  LET start == SliceStart(n, key)
      stop == SliceStop(n, key)
      step == SliceStep(key)
  IN IF step < 0
       THEN IF stop < start THEN ((start - stop - 1) \div (-step)) + 1 ELSE 0
       ELSE IF start < stop THEN ((stop - start - 1) \div step) + 1 ELSE 0

\* list[slice]: a new list
PySlice(gs, key) ==
  LET n == Len(gs)
  IN [j \in 1..SliceLength(n, key) |->
        gs[SliceStart(n, key) + (j - 1) * SliceStep(key) + 1]]

\* list[slice] = items, for a slice of step 1: the range is replaced
AssSlice(gs, key, items) ==
  LET n == Len(gs)
      lo == SliceStart(n, key)
      hi == Max(SliceStop(n, key), lo)
  IN SubSeq(gs, 1, lo) \o items \o SubSeq(gs, hi + 1, n)

\* list[slice] = items, for an extended slice of as many places as items
AssExtended(gs, key, items) ==
  LET n == Len(gs)
      at(p) == CHOOSE j \in 1..Len(items) :
                 p = SliceStart(n, key) + (j - 1) * SliceStep(key) + 1
      hit(p) == \E j \in 1..Len(items) :
                 p = SliceStart(n, key) + (j - 1) * SliceStep(key) + 1
  IN [p \in 1..n |-> IF hit(p) THEN items[at(p)] ELSE gs[p]]

(***************************************************************************)
(* Dataset.apply, Dataset.map, Dataset.filter                              *)
(***************************************************************************)
RECURSIVE ApplyLoop(_, _, _, _)
\* for i in range(len(self.graphs)): self.graphs[i] = transform(self.graphs[i])
ApplyLoop(gs, calls, t, i) ==
  IF i > Len(gs) THEN [graphs |-> gs, calls |-> calls]
  ELSE ApplyLoop([gs EXCEPT ![i] = Call(t, gs[i])],
                 Append(calls, EvCall(t, i - 1, gs[i])), t, i + 1)

\* a loop that starts one place too late
ApplyOutSkipFirst(gs, t) ==
  IF ~callable(t) THEN Out(gs, "ValueError", RetNone, << >>)
  ELSE LET r == ApplyLoop(gs, << >>, t, 2)
       IN Out(r.graphs, "none", RetNone, r.calls)

ApplyOut(gs, t) ==
  IF ~callable(t) THEN Out(gs, "ValueError", RetNone, << >>)
  ELSE LET r == ApplyLoop(gs, << >>, t, 1)
       IN Out(r.graphs, "none", RetNone, r.calls)

RECURSIVE FilterLoop(_, _, _, _, _)
\* [g for g in self.graphs if function(g)]
FilterLoop(gs, acc, calls, f, i) ==
  IF i > Len(gs) THEN [graphs |-> acc, calls |-> calls]
  ELSE FilterLoop(gs,
                  IF Truth(f, gs[i]) THEN Append(acc, gs[i]) ELSE acc,
                  Append(calls, EvCall(f, i - 1, gs[i])), f, i + 1)

\* a filter that keeps what it should drop
FilterOutInverted(gs, f) ==
  IF ~callable(f) THEN Out(gs, "ValueError", RetNone, << >>)
  ELSE LET r == FilterLoop(gs, << >>, << >>, f, 1)
           kept == SelectSeq(gs, LAMBDA g : ~Truth(f, g))
       IN Out(kept, "none", RetNone, r.calls)

FilterOut(gs, f) ==
  IF ~callable(f) THEN Out(gs, "ValueError", RetNone, << >>)
  ELSE LET r == FilterLoop(gs, << >>, << >>, f, 1)
       IN Out(r.graphs, "none", RetNone, r.calls)

\* reduce is None (<< >>) or <<r>>
MapOut(gs, t, reduce) ==
  IF ~callable(t) THEN Out(gs, "ValueError", RetNone, << >>)
  ELSE IF ~IsNone(reduce) /\ ~callable(Val(reduce))
    THEN Out(gs, "ValueError", RetNone, << >>)
  ELSE LET out == [i \in 1..Len(gs) |-> Call(t, gs[i])]
           calls == [i \in 1..Len(gs) |-> EvCall(t, i - 1, gs[i])]
       IN IF IsNone(reduce)
            THEN Out(gs, "none", Ret("list", 0, out), calls)
            ELSE Out(gs, "none", Ret("int", Len(out), << >>), calls)

(***************************************************************************)
(* Dataset.__getitem__                                                     *)
(***************************************************************************)
\* np.issubdtype(type(key), np.integer): Python ints and numpy integers
IsNpInteger(key) == key.kind \in {"int", "npint"}
\* isinstance(key, int): numpy integers are not Python ints
IsPyInt(key) == key.kind = "int"
IsListOrTuple(key) == key.kind \in {"list", "tuple"}

\* a sequence key read as a set of positions: dataset order, no repeats
GetItemOutAsMask(gs, key) ==
  IF ~(IsNpInteger(key) \/ key.kind \in {"slice", "list", "tuple", "ndarray"})
    THEN Out(gs, "ValueError", RetNone, << >>)
  ELSE IF IsNpInteger(key)
    THEN IF InRange(Len(gs), key.i)
           THEN Out(gs, "none", Ret("graph", gs[Pos(Len(gs), key.i)], << >>), << >>)
           ELSE Out(gs, "IndexError", RetNone, << >>)
  ELSE IF key.kind = "slice"
    THEN Out(gs, "none", Ret("dataset", 0, PySlice(gs, key)), << >>)
  ELSE IF AllInRange(Len(gs), key.idx)
    THEN LET P == {Pos(Len(gs), key.idx[j]) : j \in 1..Len(key.idx)}
             on == [p \in 1..Len(gs) |-> p \in P]
             RECURSIVE Pick(_)
             Pick(p) == IF p > Len(gs) THEN << >>
                        ELSE (IF on[p] THEN <<gs[p]>> ELSE << >>) \o Pick(p + 1)
         IN Out(gs, "none", Ret("dataset", 0, Pick(1)), << >>)
    ELSE Out(gs, "IndexError", RetNone, << >>)

\* self.graphs is left alone; ret is the Graph, or the graph list of the new Dataset
GetItemOut(gs, key) ==
  IF ~(IsNpInteger(key) \/ key.kind \in {"slice", "list", "tuple", "ndarray"})
    THEN Out(gs, "ValueError", RetNone, << >>)
  ELSE IF IsNpInteger(key)
    THEN IF InRange(Len(gs), key.i)
           THEN Out(gs, "none", Ret("graph", gs[Pos(Len(gs), key.i)], << >>), << >>)
           ELSE Out(gs, "IndexError", RetNone, << >>)
  ELSE IF key.kind = "slice"
    THEN Out(gs, "none", Ret("dataset", 0, PySlice(gs, key)), << >>)
  ELSE IF AllInRange(Len(gs), key.idx)
    THEN Out(gs, "none",
             Ret("dataset", 0,
                 [j \in 1..Len(key.idx) |-> gs[Pos(Len(gs), key.idx[j])]]), << >>)
    ELSE Out(gs, "IndexError", RetNone, << >>)

\* the sub-Dataset shares the list object of the Dataset it was taken from
SubListRefShared(selfRef, fresh) == selfRef

\* dataset.graphs = self.graphs[key] / [self.graphs[i] for i in key]: a new list
SubListRef(selfRef, fresh) == fresh

(***************************************************************************)
(* Dataset.__setitem__                                                     *)
(***************************************************************************)
RECURSIVE SetLoop(_, _, _, _)
\* for i, k in enumerate(key): self.graphs[k] = value[i]
SetLoop(gs, idx, items, i) ==
  IF i > Len(idx) THEN Out(gs, "none", RetNone, << >>)
  ELSE IF i > Len(items) THEN Out(gs, "IndexError", RetNone, << >>)
  ELSE IF ~InRange(Len(gs), idx[i]) THEN Out(gs, "IndexError", RetNone, << >>)
  ELSE SetLoop([gs EXCEPT ![Pos(Len(gs), idx[i])] = items[i]], idx, items, i + 1)

SetItemOut(gs, key, value) ==
  LET is_iterable == value.kind \in {"list", "tuple"}
      bad == Out(gs, "ValueError", RetNone, << >>)
  IN IF value.kind \notin {"graph", "list", "tuple"} THEN bad
     ELSE IF is_iterable /\ ~(\A j \in 1..Len(value.items) : value.items[j] \in Graphs)
       THEN bad
     ELSE IF is_iterable /\ IsPyInt(key) THEN bad
     ELSE IF ~is_iterable /\ (key.kind = "slice" \/ IsListOrTuple(key)) THEN bad
     ELSE IF ~(IsPyInt(key) \/ key.kind = "slice" \/ IsListOrTuple(key)) THEN bad
     ELSE IF IsPyInt(key)
       THEN IF InRange(Len(gs), key.i)
              THEN Out([gs EXCEPT ![Pos(Len(gs), key.i)] = value.g], "none", RetNone, << >>)
              ELSE Out(gs, "IndexError", RetNone, << >>)
     ELSE IF key.kind = "slice"
       THEN IF SliceStep(key) = 1
              THEN Out(AssSlice(gs, key, value.items), "none", RetNone, << >>)
            ELSE IF Len(value.items) # SliceLength(Len(gs), key) THEN bad
            ELSE Out(AssExtended(gs, key, value.items), "none", RetNone, << >>)
     ELSE SetLoop(gs, key.idx, value.items, 1)

(***************************************************************************)
(* Dataset.__init__                                                        *)
(***************************************************************************)
\* the transforms argument: None, a callable, a list or tuple of objects, or
\* an object that is neither callable nor iterable (an int, say)
TArg(k, items) == [kind |-> k, items |-> items]
TNone == TArg("none", << >>)

RECURSIVE ApplyAll(_, _, _, _)
\* for t in transforms: self.apply(t)
ApplyAll(gs, calls, ts, j) ==
  IF j > Len(ts) THEN [graphs |-> gs, calls |-> calls]
  ELSE LET r == ApplyOut(gs, ts[j])
       IN ApplyAll(r.graphs, (calls \o <<EvApply(ts[j])>>) \o r.calls, ts, j + 1)

\* `if transforms is not None:` and what it guards
ApplyTransforms(graphs, transforms, loaded) ==
  IF transforms.kind = "none" THEN Out(graphs, "none", RetNone, loaded)
  ELSE IF transforms.kind \notin {"list", "tuple"} /\ transforms.kind = "callable"
    THEN LET r == ApplyAll(graphs, << >>, transforms.items, 1)
         IN Out(r.graphs, "none", RetNone, loaded \o r.calls)
  ELSE IF transforms.kind = "noniter"
    THEN Out(graphs, "TypeError", RetNone, loaded)
  ELSE IF ~(\A j \in 1..Len(transforms.items) : callable(transforms.items[j]))
    THEN Out(graphs, "ValueError", RetNone, loaded)
  ELSE LET r == ApplyAll(graphs, << >>, transforms.items, 1)
       IN Out(r.graphs, "none", RetNone, loaded \o r.calls)

\* download() when the path is already there
ConstructOutDownloadIfExists(pathExists, graphs, transforms) ==
  LET loaded == (IF pathExists THEN <<EvDownload>> ELSE << >>) \o <<EvRead>>
  IN IF Len(graphs) = 0 THEN Out(graphs, "ValueError", RetNone, loaded)
     ELSE ApplyTransforms(graphs, transforms, loaded)

\* the emptiness check made after the transforms
ConstructOutLateCheck(pathExists, graphs, transforms) ==
  LET loaded == (IF ~pathExists THEN <<EvDownload>> ELSE << >>) \o <<EvRead>>
      r == ApplyTransforms(graphs, transforms, loaded)
  IN IF r.err = "none" /\ Len(r.graphs) = 0
       THEN Out(r.graphs, "ValueError", RetNone, r.calls)
       ELSE r

\* graphs is what read() returns; calls logs download(), read(), every
\* self.apply(t) and every transform(graph) made, in order
ConstructOut(pathExists, graphs, transforms) ==
  LET loaded == (IF ~pathExists THEN <<EvDownload>> ELSE << >>) \o <<EvRead>>
  IN IF Len(graphs) = 0 THEN Out(graphs, "ValueError", RetNone, loaded)
     ELSE ApplyTransforms(graphs, transforms, loaded)

(***************************************************************************)
(* The program: one Dataset is constructed, then called                    *)
(***************************************************************************)
GraphsOf(d) == IF ds[d] = NoRef THEN << >> ELSE heap[ds[d]]
Exists(d) == ds[d] # NoRef

Last(op, d, fn, reduce, key, value, pe, targ) ==
  [op |-> op, target |-> d, fn |-> fn, reduce |-> reduce, key |-> key,
   value |-> value, pathExists |-> pe, transforms |-> targ,
   pre |-> [n \in Names |-> GraphsOf(n)],
   had |-> [n \in Names |-> Exists(n)]]

NoLast ==
  [op |-> "init", target |-> "parent", fn |-> "", reduce |-> None, key |-> NoKey,
   value |-> NoValue, pathExists |-> FALSE, transforms |-> TNone,
   pre |-> [n \in Names |-> << >>],
   had |-> [n \in Names |-> FALSE]]

PoolIdle ==
  /\ layer = [k |-> 0, channels |-> None, arg |-> None, return_mask |-> FALSE,
              built |-> FALSE, F |-> 0]
  /\ inputs = [X |-> << >>, A |-> [shape |-> << >>, sparse |-> FALSE], I |-> None]
  /\ outputs = << >>
  /\ losses = << >>
  /\ ncalls = 0

Init ==
  /\ heap = [r \in Refs |-> << >>]
  /\ ds = [n \in Names |-> NoRef]
  /\ err = "none"
  /\ ret = RetNone
  /\ last = NoLast
  /\ trace = << >>
  /\ PoolIdle

\* Dataset(transforms): the object exists only if __init__ returns; the list
\* of a half-built object stays at ParentRef, where nothing refers to it
Construct(pathExists, graphs, transforms) ==
  LET out == ConstructOut(pathExists, graphs, transforms)
  IN /\ last.op = "init"
     /\ heap' = [heap EXCEPT ![ParentRef] = out.graphs]
     /\ ds' = [ds EXCEPT !["parent"] = IF out.err = "none" THEN ParentRef ELSE NoRef]
     /\ err' = out.err
     /\ ret' = out.ret
     /\ trace' = out.calls
     /\ last' = Last("construct", "parent", "", None, NoKey,
                     SeqValue("list", graphs), pathExists, transforms)
     /\ UNCHANGED poolVars

\* what every call on an existing Dataset d does to the state
Effect(d, out, l) ==
  /\ heap' = [heap EXCEPT ![ds[d]] = out.graphs]
  /\ err' = out.err
  /\ ret' = out.ret
  /\ trace' = out.calls
  /\ last' = l
  /\ UNCHANGED ds
  /\ UNCHANGED poolVars

Apply(d, t) ==
  /\ Exists(d)
  /\ Effect(d, ApplyOut(GraphsOf(d), t),
         Last("apply", d, t, None, NoKey, NoValue, FALSE, TNone))

Map(d, t, reduce) ==
  /\ Exists(d)
  /\ Effect(d, MapOut(GraphsOf(d), t, reduce),
         Last("map", d, t, reduce, NoKey, NoValue, FALSE, TNone))

Filter(d, f) ==
  /\ Exists(d)
  /\ Effect(d, FilterOut(GraphsOf(d), f),
         Last("filter", d, f, None, NoKey, NoValue, FALSE, TNone))

\* d[key]; with bind, `sub = d[key]` when a Dataset is returned
GetItem(d, key, bind) ==
  LET out == GetItemOut(GraphsOf(d), key)
      ref == SubListRef(ds[d], SubRef)
  IN /\ Exists(d)
     /\ IF bind /\ out.ret.kind = "dataset"
          THEN /\ heap' = [heap EXCEPT ![ref] = out.ret.graphs]
               /\ ds' = [ds EXCEPT !["sub"] = ref]
          ELSE UNCHANGED <<heap, ds>>
     /\ err' = out.err
     /\ ret' = out.ret
     /\ trace' = out.calls
     /\ last' = Last("getitem", d, "", None, key, NoValue, FALSE, TNone)
     /\ UNCHANGED poolVars

\* d[key] = value; lists longer than MaxLen are outside the model
SetItem(d, key, value) ==
  LET out == SetItemOut(GraphsOf(d), key, value)
  IN /\ Exists(d)
     /\ Len(out.graphs) <= MaxLen
     /\ Effect(d, out, Last("setitem", d, "", None, key, value, FALSE, TNone))

(***************************************************************************)
(* Inputs                                                                  *)
(***************************************************************************)
KeyInts == {-1, 0, 1, MaxLen}
IntKeys == {IntKey(i) : i \in KeyInts \cup {-(MaxLen + 1)}}
             \cup {NpIntKey(i) : i \in KeyInts \cup {-(MaxLen + 1)}}
SliceStarts == {None, Some(-1), Some(0), Some(1)}
SliceStops == {None, Some(-1), Some(1), Some(MaxLen + 1)}
SliceSteps == {None, Some(-1), Some(2)}
Slices(steps) == {SliceKey(a, b, s) : a \in SliceStarts, b \in SliceStops, s \in steps}
SeqKeys(kinds, n) == {SeqKey(k, idx) : k \in kinds, idx \in SeqsUpTo(KeyInts, n)}
GetKeys == IntKeys \cup Slices(SliceSteps) \cup SeqKeys({"list"}, MaxKeyLen)
             \cup SeqKeys({"tuple", "ndarray"}, MaxKeyLen - 1) \cup {OtherKey}

SeqValues(kinds, n) ==
  {SeqValue(k, items) : k \in kinds, items \in SeqsUpTo(Graphs \cup {NonGraph}, n)}
GraphValues == {GraphValue(g) : g \in Graphs}

\* a few keys, and a few assignments of each kind, for the specifications that
\* are not about __getitem__ or __setitem__ themselves
FewKeys == {IntKey(0), IntKey(MaxLen), SliceKey(None, None, None),
            SliceKey(Some(1), None, None), SeqKey("list", <<0>>),
            SeqKey("list", <<-1, 0>>), OtherKey}
FewAssignments ==
  {<<IntKey(0), GraphValue(1)>>,
   <<IntKey(MaxLen), GraphValue(1)>>,
   <<IntKey(0), OtherValue>>,
   <<OtherKey, GraphValue(1)>>,
   <<SliceKey(None, None, None), SeqValue("list", << >>)>>,
   <<SliceKey(Some(1), None, None), SeqValue("list", <<1>>)>>,
   <<SeqKey("list", <<0>>), SeqValue("list", <<NGraphs>>)>>,
   <<SeqKey("list", <<-1, 0>>), SeqValue("tuple", <<NGraphs, 1>>)>>}

\* the keys and values of the specification of __setitem__: every kind of
\* key and of value, list keys of every content
SetKeys == {IntKey(-1), IntKey(0), IntKey(MaxLen), NpIntKey(0)}
             \cup {SliceKey(a, b, None) : a \in {None, Some(1)}, b \in {None, Some(1)}}
             \cup {SliceKey(None, None, Some(2))}
             \cup SeqKeys({"list"}, MaxKeyLen)
             \cup {SeqKey("tuple", <<0>>), SeqKey("ndarray", <<0>>), OtherKey}
SetValues == GraphValues
               \cup {SeqValue("list", items) : items \in SeqsUpTo({1, NonGraph}, MaxKeyLen)}
               \cup {SeqValue("tuple", <<NGraphs>>), OtherValue}

TransformArgs ==
  {TNone, TArg("noniter", << >>)}
    \cup {TArg("callable", <<t>>) : t \in Transforms}
    \cup {TArg(k, ts) : k \in {"list", "tuple"},
                        ts \in SeqsUpTo(Transforms \cup {NonCallable}, MaxTransforms)}

ReadResults == SeqsUpTo(Graphs, MaxLen)

(***************************************************************************)
(* Spec: one Dataset, every operation                                      *)
(***************************************************************************)
Next ==
  \/ \E pe \in BOOLEAN, gs \in ReadResults, ts \in TransformArgs : Construct(pe, gs, ts)
  \/ \E t \in Transforms \cup {NonCallable} : Apply("parent", t)
  \/ \E t \in Transforms \cup {NonCallable},
        r \in {None, Some("r_len"), Some(NonCallable)} : Map("parent", t, r)
  \/ \E f \in Predicates \cup {NonCallable} : Filter("parent", f)
  \/ \E key \in GetKeys : GetItem("parent", key, FALSE)
  \/ \E a \in FewAssignments : SetItem("parent", a[1], a[2])

Spec == Init /\ [][Next]_vars

(***************************************************************************)
(* SpecSetItem: one Dataset, assignments of every kind                     *)
(***************************************************************************)
NextSetItem ==
  \/ \E pe \in BOOLEAN, gs \in ReadResults : Construct(pe, gs, TNone)
  \/ \E key \in SetKeys, value \in SetValues : SetItem("parent", key, value)

SpecSetItem == Init /\ [][NextSetItem]_vars

(***************************************************************************)
(* SpecSub: a Dataset and the sub-Dataset last taken from it (or from the  *)
(* previous sub-Dataset), both kept and both called                        *)
(***************************************************************************)
NextSub ==
  \/ \E gs \in ReadResults : Construct(TRUE, gs, TNone)
  \/ \E d \in Names : Apply(d, "t_next")
  \/ \E d \in Names, f \in {"p_first", "p_none"} : Filter(d, f)
  \/ \E d \in Names, key \in FewKeys : GetItem(d, key, TRUE)
  \/ \E d \in Names, a \in FewAssignments : SetItem(d, a[1], a[2])

SpecSub == Init /\ [][NextSub]_vars

(***************************************************************************)
(* DiffPool: tensors are followed by their shapes                          *)
(***************************************************************************)
Rank(shape) == Len(shape)
Batch(shape) == SubSeq(shape, 1, Len(shape) - 2)
Rows(shape) == shape[Len(shape) - 1]
Cols(shape) == shape[Len(shape)]

\* batch dimensions of a product: the operand that has them gives them
Broadcast(b1, b2) ==
  IF Len(b1) = 0 THEN b2
  ELSE IF Len(b2) = 0 THEN b1
  ELSE <<Max(b1[1], b2[1])>>

\* K.dot(x, w), w of rank 2
Dot(x, w) == SubSeq(x, 1, Len(x) - 1) \o <<Cols(w)>>
\* ops.filter_dot(fltr, z)
FilterDot(fltr, z) == z
\* ops.matmul_AT_B(a, b): transpose(a) b
MatMulATB(a, b) == Broadcast(Batch(a), Batch(b)) \o <<Cols(a), Cols(b)>>
\* ops.matmul_A_BT(a, b): a transpose(b)
MatMulABT(a, b) == Broadcast(Batch(a), Batch(b)) \o <<Rows(a), Rows(b)>>
\* ops.matmul_AT_B_A(a, b): transpose(a) b a
MatMulATBA(a, b) == Broadcast(Batch(a), Batch(b)) \o <<Cols(a), Cols(a)>>
\* ops.autodetect_mode(A, X)
AutodetectMode(A, X) ==
  IF Rank(X) = 2 /\ Rank(A) = 2 THEN "single"
  ELSE IF Rank(X) = 3 /\ Rank(A) = 3 THEN "batch"
  ELSE IF Rank(X) = 3 /\ Rank(A) = 2 THEN "mixed"
  ELSE "unknown"

Loss(name, shape) == [name |-> name, shape |-> shape]

\* DiffPool(k, channels, return_mask): nothing is built yet
NewLayer(k, channels, return_mask) ==
  [k |-> k, channels |-> channels, arg |-> channels, return_mask |-> return_mask,
   built |-> FALSE, F |-> 0]

\* build(input_shape): channels defaults to F; kernel_emb is (F, channels) and
\* kernel_pool is (F, k)
Build(l, X) ==
  [l EXCEPT !.channels = IF IsNone(l.channels) THEN Some(Cols(X)) ELSE l.channels,
            !.built = TRUE,
            !.F = Cols(X)]

KernelEmb(l) == <<l.F, Val(l.channels)>>
KernelPool(l) == <<l.F, l.k>>

\* the pooled features taken from X, as in the docstring's X' = S^T X
CallOutPoolsX(l, X, A, I) ==
  LET mode == AutodetectMode(A.shape, X)
      S == FilterDot(A.shape, Dot(X, KernelPool(l)))
      A2 == IF mode = "mixed" THEN <<1>> \o A.shape ELSE A.shape
      base == <<MatMulATB(S, X), MatMulATBA(S, A2)>>
      withI == IF IsNone(I) THEN base ELSE Append(base, <<Val(I) * l.k>>)
  IN [outputs |-> IF l.return_mask THEN Append(withI, S) ELSE withI,
      losses |-> <<Loss("link_prediction", << >>), Loss("entropy", << >>)>>]

\* call(inputs) on a built layer: X and A are the input tensors, I is None or
\* the number of segments of the third input
CallOut(l, X, A, I) ==
  LET mode == AutodetectMode(A.shape, X)
      reduce_loss == mode \in {"mixed", "batch"}
      fltr == A.shape
      Z == FilterDot(fltr, Dot(X, KernelEmb(l)))
      S == FilterDot(fltr, Dot(X, KernelPool(l)))
      S_gram == MatMulABT(S, S)
      A2 == IF mode = "mixed" THEN <<1>> \o A.shape ELSE A.shape
      LP_diff == Broadcast(Batch(A2), Batch(S_gram)) \o <<Rows(S_gram), Cols(S_gram)>>
      LP_norm == Batch(LP_diff)
      LP_loss == IF reduce_loss THEN << >> ELSE LP_norm
      entr == SubSeq(S, 1, Len(S) - 1)
      entr_mean == SubSeq(entr, 1, Len(entr) - 1)
      entr_loss == IF reduce_loss THEN << >> ELSE entr_mean
      X_pooled == MatMulATB(S, Z)
      A_pooled == MatMulATBA(S, A2)
      base == <<X_pooled, A_pooled>>
      withI == IF IsNone(I) THEN base ELSE Append(base, <<Val(I) * l.k>>)
  IN [outputs |-> IF l.return_mask THEN Append(withI, S) ELSE withI,
      losses |-> <<Loss("link_prediction", LP_loss), Loss("entropy", entr_loss)>>]

\* the inputs the layer accepts: X of shape ([batch], N, F); A of shape
\* ([batch], N, N), or a sparse (N, N) beside a batched X (mixed mode); the
\* segment ids I only beside a single graph
PoolInputs ==
  {[X |-> b \o <<n, f>>, A |-> [shape |-> ab \o <<n, n>>, sparse |-> sp], I |-> i] :
     b \in {<< >>} \cup {<<m>> : m \in 1..MaxB},
     ab \in {<< >>} \cup {<<m>> : m \in 1..MaxB},
     n \in 1..MaxN, f \in 1..MaxF, sp \in BOOLEAN,
     i \in {None} \cup {Some(m) : m \in 1..MaxB}}

ValidInput(in) ==
  /\ AutodetectMode(in.A.shape, in.X) # "unknown"
  /\ Rank(in.A.shape) = 3 => (Batch(in.A.shape) = Batch(in.X) /\ ~in.A.sparse)
  /\ AutodetectMode(in.A.shape, in.X) = "mixed" => in.A.sparse
  /\ ~IsNone(in.I) => (Rank(in.X) = 2 /\ Val(in.I) <= Rows(in.X))

DsIdle ==
  /\ heap = [r \in Refs |-> << >>]
  /\ ds = [n \in Names |-> NoRef]
  /\ err = "none"
  /\ ret = RetNone
  /\ last = NoLast
  /\ trace = << >>

InitPool ==
  /\ DsIdle
  /\ layer \in {NewLayer(k, c, m) : k \in 1..MaxK,
                                    c \in {None} \cup {Some(n) : n \in 1..MaxC},
                                    m \in BOOLEAN}
  /\ inputs = [X |-> << >>, A |-> [shape |-> << >>, sparse |-> FALSE], I |-> None]
  /\ outputs = << >>
  /\ losses = << >>
  /\ ncalls = 0

\* layer(inputs): Keras builds the layer on its first call, then runs call();
\* a built layer takes inputs of the feature size it was built for
LayerCall(in) ==
  LET l == IF layer.built THEN layer ELSE Build(layer, in.X)
      out == CallOut(l, in.X, in.A, in.I)
  IN /\ layer.k > 0
     /\ ncalls < MaxCalls
     /\ ValidInput(in)
     /\ layer.built => Cols(in.X) = layer.F
     /\ layer' = l
     /\ outputs' = out.outputs
     /\ losses' = losses \o out.losses
     /\ ncalls' = ncalls + 1
     /\ inputs' = in
     /\ UNCHANGED dsVars

NextPool == \E in \in PoolInputs : LayerCall(in)

SpecPool == InitPool /\ [][NextPool]_vars

(***************************************************************************)
(* Properties                                                              *)
(***************************************************************************)
\* the graph list of the called Dataset before the last call, and after it
Before == last.pre[last.target]
After == GraphsOf(last.target)

\* the j-th element of a set of integers, in increasing order
NthUp(I, j) == CHOOSE i \in I : Cardinality({x \in I : x < i}) = j - 1
\* the j-th element of a set of integers, in decreasing order
NthDown(I, j) == CHOOSE i \in I : Cardinality({x \in I : x > i}) = j - 1

\* the 0-based positions range(n)[start:stop:step] names, by what a slice
\* means: those from the (clipped) start up to, not including, the (clipped)
\* stop, step apart
Picked(n, key) ==
  LET step == IF IsNone(key.step) THEN 1 ELSE Val(key.step)
      abs(v) == IF v < 0 THEN v + n ELSE v
  IN IF step > 0
       THEN LET lo == IF IsNone(key.start) THEN 0 ELSE Max(abs(Val(key.start)), 0)
                hi == IF IsNone(key.stop) THEN n ELSE abs(Val(key.stop))
            IN {i \in 0..(n - 1) : lo <= i /\ i < hi /\ (i - lo) % step = 0}
       ELSE LET hi == IF IsNone(key.start) THEN n - 1 ELSE Min(abs(Val(key.start)), n - 1)
                lo == IF IsNone(key.stop) THEN -1 ELSE abs(Val(key.stop))
            IN {i \in 0..(n - 1) : lo < i /\ i <= hi /\ (hi - i) % (-step) = 0}

\* C1: __getitem__ with an integer key (Python or numpy) in range returns the
\* Graph at that position; with a slice, a Dataset of graphs[slice]; with a
\* list, tuple or ndarray of indices in range, a Dataset of exactly
\* [graphs[i] for i in key], in key order and with repeats; with a key of
\* another type it raises ValueError.
GetItemReturns ==
  last.op = "getitem" =>
    LET key == last.key
        n == Len(Before)
        at(i) == Before[(IF i < 0 THEN i + n ELSE i) + 1]
        ok(i) == -n <= i /\ i < n
    IN /\ (key.kind \in {"int", "npint"} /\ ok(key.i)) =>
            (err = "none" /\ ret.kind = "graph" /\ ret.g = at(key.i))
       /\ key.kind = "slice" =>
            LET I == Picked(n, key)
                up == IsNone(key.step) \/ Val(key.step) > 0
            IN /\ err = "none"
               /\ ret.kind = "dataset"
               /\ Len(ret.graphs) = Cardinality(I)
               /\ \A j \in 1..Len(ret.graphs) :
                    ret.graphs[j] = Before[(IF up THEN NthUp(I, j) ELSE NthDown(I, j)) + 1]
       /\ (key.kind \in {"list", "tuple", "ndarray"}
             /\ \A j \in 1..Len(key.idx) : ok(key.idx[j])) =>
            /\ err = "none"
            /\ ret.kind = "dataset"
            /\ Len(ret.graphs) = Len(key.idx)
            /\ \A j \in 1..Len(key.idx) : ret.graphs[j] = at(key.idx[j])
       /\ key.kind = "other" => (err = "ValueError" /\ ret.kind = "none")

\* a list key that repeats an index and reverses the order, on two different graphs
GetItemReturnsWitness ==
  /\ last.op = "getitem"
  /\ last.key.kind = "list"
  /\ last.key.idx = <<-1, 0>>
  /\ Len(Before) = 2
  /\ Before[1] # Before[2]
  /\ ret.kind = "dataset"
  /\ ret.graphs = <<Before[2], Before[1]>>

\* C2: when read() returns an empty list the constructor raises ValueError, no
\* Dataset exists and no transform was applied.
EmptyReadRaises ==
  (last.op = "construct" /\ Len(last.value.items) = 0) =>
    /\ err = "ValueError"
    /\ ~Exists("parent")
    /\ \A j \in 1..Len(trace) : trace[j].ev \notin {"apply", "call"}

\* an empty read with a list of two callables to apply
EmptyReadRaisesWitness ==
  /\ last.op = "construct"
  /\ Len(last.value.items) = 0
  /\ last.transforms.kind = "list"
  /\ Len(last.transforms.items) = 2
  /\ \A j \in 1..2 : callable(last.transforms.items[j])
  /\ err = "ValueError"

\* C3: every Dataset that exists holds at least one graph.
NeverEmpty == \A d \in Names : Exists(d) => Len(GraphsOf(d)) >= 1

\* C4: filter(function) leaves exactly the graphs for which function is true,
\* in their original order, and calls function once per graph.
FilterKeeps ==
  (last.op = "filter" /\ callable(last.fn)) =>
    LET n == Len(Before)
        keep == {i \in 1..n : Truth(last.fn, Before[i])}
    IN /\ err = "none"
       /\ Len(After) = Cardinality(keep)
       /\ \A j \in 1..Len(After) : After[j] = Before[NthUp(keep, j)]
       /\ Len(trace) = n
       /\ \A i \in 1..n : trace[i] = EvCall(last.fn, i - 1, Before[i])

\* a filter that drops the first of two graphs and keeps the second
FilterKeepsWitness ==
  /\ last.op = "filter"
  /\ callable(last.fn)
  /\ Len(Before) = 2
  /\ ~Truth(last.fn, Before[1])
  /\ Truth(last.fn, Before[2])
  /\ After = <<Before[2]>>

\* C5: apply(transform) keeps the number of graphs, puts transform(old graph) at
\* every position, and calls transform once per position in increasing order.
ApplyReplaces ==
  (last.op = "apply" /\ callable(last.fn)) =>
    LET n == Len(Before)
    IN /\ err = "none"
       /\ Len(After) = n
       /\ \A i \in 1..n : After[i] = Call(last.fn, Before[i])
       /\ Len(trace) = n
       /\ \A i \in 1..n : trace[i] = EvCall(last.fn, i - 1, Before[i])

\* a transform that changed both of two graphs
ApplyReplacesWitness ==
  /\ last.op = "apply"
  /\ callable(last.fn)
  /\ Len(Before) = 2
  /\ Len(After) = 2
  /\ After[1] # Before[1]
  /\ After[2] # Before[2]

\* the callables the constructor was given, in the order given
Given(targ) == IF targ.kind = "none" THEN << >> ELSE targ.items
ApplyEvents == SelectSeq(trace, LAMBDA e : e.ev = "apply")

\* C6: the constructor calls download() iff the path does not exist, and then
\* before read(); read() is called once; every transform is applied after
\* read(), and a constructor that returns has applied them all in the order given.
ConstructOrder ==
  last.op = "construct" =>
    LET downloads == {j \in 1..Len(trace) : trace[j].ev = "download"}
        reads == {j \in 1..Len(trace) : trace[j].ev = "read"}
        applied == ApplyEvents
    IN /\ (downloads # {}) <=> ~last.pathExists
       /\ Cardinality(downloads) <= 1
       /\ Cardinality(reads) = 1
       /\ \A j \in downloads, k \in reads : j < k
       /\ \A j \in 1..Len(trace), k \in reads :
            trace[j].ev \in {"apply", "call"} => k < j
       /\ err = "none" =>
            /\ Len(applied) = Len(Given(last.transforms))
            /\ \A j \in 1..Len(applied) : applied[j].f = Given(last.transforms)[j]

\* a download, then a read, then two different transforms on a non-empty list
ConstructOrderWitness ==
  /\ last.op = "construct"
  /\ ~last.pathExists
  /\ err = "none"
  /\ Len(last.value.items) > 0
  /\ last.transforms.kind = "list"
  /\ Len(last.transforms.items) = 2
  /\ last.transforms.items[1] # last.transforms.items[2]
  /\ Len(ApplyEvents) = 2

\* the transforms argument is a callable, or a list or tuple of callables
ValidTransforms(targ) ==
  \/ targ.kind = "callable"
  \/ /\ targ.kind \in {"list", "tuple"}
     /\ \A j \in 1..Len(targ.items) : callable(targ.items[j])

\* C7: a non-callable given to apply, filter or map, a reduce that is neither
\* None nor callable, and a constructor argument that is neither a callable
\* nor a list or tuple of callables, each raise ValueError and leave the graph
\* list as it was (as read, for the constructor).
CallableChecks ==
  /\ (last.op \in {"apply", "filter", "map"} /\ ~callable(last.fn)) =>
       (err = "ValueError" /\ After = Before)
  /\ (last.op = "map" /\ ~IsNone(last.reduce) /\ ~callable(Val(last.reduce))) =>
       (err = "ValueError" /\ After = Before)
  /\ (last.op = "construct" /\ last.transforms.kind # "none"
        /\ ~ValidTransforms(last.transforms)) =>
       /\ err = "ValueError"
       /\ heap[ParentRef] = last.value.items
       /\ Len(ApplyEvents) = 0

\* C9: a __setitem__ that raises leaves the graph list as it was.
SetItemAllOrNothing ==
  (last.op = "setitem" /\ err # "none") => After = Before

\* C10: apply, filter and __setitem__ on one Dataset leave the graph list of
\* the other Dataset (the parent of a sub-Dataset, or the sub-Dataset of a
\* parent) as it was.
SubDatasetOwnsList ==
  last.op \in {"apply", "filter", "setitem"} =>
    \A o \in Names \ {last.target} : last.had[o] => GraphsOf(o) = last.pre[o]

\* an assignment that changed the sub-Dataset while the parent holds graphs
SubDatasetOwnsListWitness ==
  /\ last.op = "setitem"
  /\ last.target = "sub"
  /\ err = "none"
  /\ After # Before
  /\ Exists("parent")
  /\ Len(GraphsOf("parent")) > 0
  /\ last.pre["parent"] = last.pre["sub"]

\* C8: a call on X of shape ([batch], N, F) and A returns the reduced features
\* ([batch], K, channels) first and the reduced adjacency ([batch], K, K)
\* second, channels being F for a layer created with channels=None; with
\* return_mask the clustering ([batch], N, K) is the last output, and without
\* segment ids nothing else is returned; each call adds two losses, the link
\* prediction loss then the entropy loss.
PoolShapes ==
  ncalls > 0 =>
    LET X == inputs.X
        batch == SubSeq(X, 1, Len(X) - 2)
        N == X[Len(X) - 1]
        F == X[Len(X)]
        K == layer.k
        channels == IF IsNone(layer.arg) THEN F ELSE Val(layer.arg)
    IN /\ Len(outputs) >= 2
       /\ outputs[1] = batch \o <<K, channels>>
       /\ outputs[2] = batch \o <<K, K>>
       /\ layer.return_mask => outputs[Len(outputs)] = batch \o <<N, K>>
       /\ IsNone(inputs.I) => Len(outputs) = (IF layer.return_mask THEN 3 ELSE 2)
       /\ Len(losses) = 2 * ncalls
       /\ \A c \in 1..ncalls :
            /\ losses[2 * c - 1].name = "link_prediction"
            /\ losses[2 * c].name = "entropy"

\* a second call of a layer created with channels=None and return_mask, on a batch
PoolShapesWitness ==
  /\ ncalls = 2
  /\ IsNone(layer.arg)
  /\ layer.return_mask
  /\ Len(inputs.X) = 3
  /\ inputs.X[3] # layer.k
  /\ Len(outputs) = 3
  /\ Len(losses) = 4

====
